---- MODULE Spec2Model ----
(***************************************************************************)
(* Model of the express-mvc User pipeline: the in-memory UserRepository,   *)
(* the synchronous UserService (src/src/repositories/IRepository.ts), the  *)
(* asynchronous UserService (src/src/services/UserService.ts), the         *)
(* UserController with its router, and the HttpResponse helpers.           *)
(*                                                                         *)
(* Representation.                                                         *)
(*  - A JavaScript string is a sequence of one-character strings, so that  *)
(*    toLowerCase and includes are computed character by character.        *)
(*  - "T | undefined" is a sequence of length 0 (undefined) or 1.          *)
(*  - A Date is its millisecond value.  Time is measured in model units    *)
(*    that keep the order of the program's values:                         *)
(*    seeded ids 1 < 2 < 2025-01-01 < 2025-01-02 < clock at process start. *)
(***************************************************************************)
EXTENDS Integers, Sequences, FiniteSets, TLC

\* ------------------------------------------------------------------------
\* Bounds of the model
\* ------------------------------------------------------------------------
MaxTime == 6
MaxUsers == 3
MaxCalls == 2

\* ------------------------------------------------------------------------
\* Strings
\* ------------------------------------------------------------------------
UpperChars ==
  <<"A","B","C","D","E","F","G","H","I","J","K","L","M",
    "N","O","P","Q","R","S","T","U","V","W","X","Y","Z">>

LowerChars ==
  <<"a","b","c","d","e","f","g","h","i","j","k","l","m",
    "n","o","p","q","r","s","t","u","v","w","x","y","z">>

UpperSet == {UpperChars[i] : i \in 1..Len(UpperChars)}

LowerOf ==
  [c \in UpperSet |->
     LowerChars[CHOOSE i \in 1..Len(UpperChars) : UpperChars[i] = c]]

\* String.prototype.toLowerCase on one ASCII character
LowerChar(c) == IF c \in UpperSet THEN LowerOf[c] ELSE c

\* String.prototype.toLowerCase
toLowerCase(s) == [i \in 1..Len(s) |-> LowerChar(s[i])]

\* String.prototype.includes
includes(s, q) ==
  \E k \in 0..(Len(s) - Len(q)) : SubSeq(s, k + 1, k + Len(q)) = q

\* ------------------------------------------------------------------------
\* Values of the program and of its inputs
\* ------------------------------------------------------------------------
undefined == <<>>
Some(x) == <<x>>

JohnDoe == <<"J","o","h","n"," ","D","o","e">>
JohnEmail == <<"j","o","h","n","@","e","x","a","m","p","l","e",".","c","o","m">>
JaneSmith == <<"J","a","n","e"," ","S","m","i","t","h">>
JaneEmail == <<"j","a","n","e","@","e","x","a","m","p","l","e",".","c","o","m">>

\* new Date('2025-01-01') and new Date('2025-01-02'), in model time units
Jan1 == 3
Jan2 == 4

\* The clock reading when the process starts: after the seeded dates
StartTime == Jan2 + 1

EmptyString == <<>>
Bob == <<"B","o","b">>
Al == <<"A","l">>
BobEmail == <<"b","@","x">>
BobEmailUpper == <<"B","@","X">>
JohnEmailUpper == <<"J","O","H","N","@","E","X","A","M","P","L","E",".","C","O","M">>

\* Inputs of the repository's create: <<name, email>>, each optional
RepoCreateInputs ==
  { <<Some(Bob), Some(BobEmail)>>, <<Some(Bob), Some(JohnEmailUpper)>>,
    <<undefined, Some(BobEmail)>>, <<Some(Bob), Some(EmptyString)>> }

\* Inputs of the repository's update: the fields <<name, email>> to replace
RepoPatches == { <<Some(Al), undefined>> }

\* Inputs of the service's createUser: the CreateUserDto <<name, email>>
SvcCreateInputs ==
  { <<Bob, BobEmail>>, <<Bob, BobEmailUpper>>, <<Bob, JohnEmailUpper>>,
    <<EmptyString, BobEmail>> }

\* Inputs of the service's updateUser: the UpdateUserDto <<name, email>>
SvcPatches == { <<undefined, Some(JohnEmailUpper)>> }

\* Inputs: search queries
Queries ==
  { EmptyString, <<"j","o","h","n">>, <<"J","O","H","N">>, <<"D","O","E">>,
    <<"b">>, <<"@","X">>, <<"z","z">> }

\* An id no user ever holds (999999 in the documentation's examples)
UnknownId == 0

\* JavaScript truthiness of an optional string: undefined and '' are falsy
Falsy(o) == o = undefined \/ o[1] = EmptyString

MsgRequired == "Name and email are required"
MsgConflict == "User with this email already exists"
NoError == ""

\* ------------------------------------------------------------------------
\* HTTP values: request parameters, bodies and replies
\* ------------------------------------------------------------------------
Digits == <<"0","1","2","3","4","5","6","7","8","9">>

DigitSet == {Digits[i] : i \in 1..Len(Digits)}

DigitOf == [c \in DigitSet |-> (CHOOSE i \in 1..Len(Digits) : Digits[i] = c) - 1]

\* Number.prototype.toString of a non-negative integer: how an id appears
\* in a request path
RECURSIVE numberToString(_)
numberToString(n) ==
  IF n < 10 THEN <<Digits[n + 1]>>
  ELSE numberToString(n \div 10) \o <<Digits[(n % 10) + 1]>>

\* The value of the decimal digits that s has from position i on, continuing
\* the value acc; parsing stops at the first character that is not a digit
RECURSIVE parseDigits(_, _, _)
parseDigits(s, i, acc) ==
  IF i > Len(s) \/ s[i] \notin DigitSet THEN acc
  ELSE parseDigits(s, i + 1, acc * 10 + DigitOf[s[i]])

\* The position of the first character of s that is not white space
RECURSIVE skipWhiteSpace(_, _)
skipWhiteSpace(s, i) ==
  IF i <= Len(s) /\ s[i] = " " THEN skipWhiteSpace(s, i + 1) ELSE i

NaN == <<>>

\* parseInt(string), radix 10: leading white space is skipped, one sign is
\* read, then the longest run of digits; what follows the digits is ignored;
\* NaN when there is no digit.  The result is NaN or <<n>>.
parseInt(s) ==
  LET i == skipWhiteSpace(s, 1)
      signed == i <= Len(s) /\ s[i] \in {"+", "-"}
      j == IF signed THEN i + 1 ELSE i
      n == parseDigits(s, j, 0)
  IN IF j > Len(s) \/ s[j] \notin DigitSet THEN NaN
     ELSE IF signed /\ s[i] = "-" THEN <<0 - n>> ELSE <<n>>

isNaN(v) == v = NaN

\* A JSON number in a request body (123).  It is a one-element sequence
\* holding a token that is no character, so it equals no string of the model.
NumberValue == <<"123">>

IsNumber(v) == v = NumberValue

\* JavaScript truthiness of a body field: undefined and '' are falsy, a
\* non-empty string and the number 123 are truthy
Truthy(o) == ~Falsy(o)

\* The data member of a reply body.  JSON.stringify of a Promise is {}.
NoData == [kind |-> "none", value |-> <<>>]
UserData(user) == [kind |-> "user", value |-> <<user>>]
UsersData(list) == [kind |-> "users", value |-> list]
PromiseData == [kind |-> "promise", value |-> <<>>]

MsgIdRequired == "User ID is required"
MsgInvalidId == "Invalid user ID format"
MsgUserNotFound == "User not found"
MsgCreated == "User created successfully"
MsgUpdated == "User updated successfully"
MsgDeleted == "User deleted successfully"
MsgInternal == "Internal server error"
TypeError == "TypeError: email.toLowerCase is not a function"

\* A request: method and path as the router sees them, the id parameter of
\* the path, the name and email members of the body, the search member of
\* the query string (each absent or present)
Req(method, path, id, name, email, q) ==
  [method |-> method, path |-> path, id |-> id, name |-> name,
   email |-> email, search |-> q]

NoReq == Req("", "", undefined, undefined, undefined, undefined)

\* A reply: by is the handler or helper that sent it; req is the request it
\* answers; status is the HTTP status; fields is the set of members the
\* JSON body has (empty when no body was sent); the other members are the
\* values of those fields, and have a default value when the field is not
\* in the body.
Reply(by, req, status, fields, success, message, error, errors, data, count, timestamp) ==
  [by |-> by, req |-> req, status |-> status,
   fields |-> fields, success |-> success, message |-> message,
   error |-> error, errors |-> errors, data |-> data, count |-> count,
   timestamp |-> timestamp]

NoReply ==
  Reply("none", NoReq, 0, {}, FALSE, "", "", <<>>, NoData, 0, 0)


\* ------------------------------------------------------------------------
\* Values of the logger and of the server process
\* ------------------------------------------------------------------------
\* A context: the bindings a logger attaches to its records, as a set of
\* <<key, value>> pairs with one value for each key
RootContext == {}

\* The Logger instances the application constructs when it starts:
\* new Logger({ module: 'Server' }) and new Logger({ module: 'UserService' })
InitLoggers == << {<<"module", "Server">>}, {<<"module", "UserService">>} >>

\* The process when it starts.  startup is where startServer stands
\* ("connecting" while it awaits testConnection, then "started" or
\* "failed"); server is the variable server ("undefined" until app.listen
\* returns, then "listening", "closing" once close was called, "closed" once
\* its close event was emitted); closeStarted counts the calls of
\* server.close and closeCallbacks the callbacks that wait for the close
\* event; dbCalls counts the calls of closeConnection, dbPending those that
\* have not settled, dbSettled those that have and dbRejected those that
\* were rejected; timers counts the pending 10-second timers; rejections
\* counts the rejected promises waiting for the unhandledRejection handler
\* and reentered is whether that handler has run for one of them;
\* triggers counts the termination triggers so far and signal is the last
\* of them; exitCode is the code of process.exit, NoExit while the process
\* runs
NoExit == 0 - 1

ProcStart ==
  [startup |-> "connecting", server |-> "undefined", closeStarted |-> 0,
   closeCallbacks |-> 0, dbCalls |-> 0, dbPending |-> 0, dbSettled |-> 0,
   dbRejected |-> 0, timers |-> 0, rejections |-> 0, reentered |-> FALSE,
   triggers |-> 0, signal |-> "none", exitCode |-> NoExit]

VARIABLES
  users,     \* UserRepository.users
  now,       \* the system clock, last value read
  last,      \* the most recent call: operation, arguments, outcome
  prev,      \* the service call before the most recent one
  calls,     \* asynchronous createUser calls in flight
  everIds,   \* every id some user has held, stored now or deleted earlier
  variant,   \* which UserService the program is built with: "sync" or "async"
  res,       \* the reply to the most recent HTTP request
  rejection, \* the reason of the promise the most recent handler left
             \* rejected with nobody awaiting it (NoError when there is none)
  logs,      \* the log records emitted for the most recent controller call
  sent,      \* how many times the most recent controller call sent a reply
  loggers,   \* the Logger instances that exist, each with its context
  proc       \* the server process: startup, HTTP server, shutdown, exit

vars == <<users, now, last, prev, calls, everIds, variant, res, rejection, logs, sent, loggers, proc>>

\* ------------------------------------------------------------------------
\* UserRepository (src/src/repositories/UserRepository.ts)
\* ------------------------------------------------------------------------
SeedUsers ==
  << [id |-> 1, name |-> JohnDoe, email |-> JohnEmail,
      createdAt |-> Jan1, updatedAt |-> Jan1],
     [id |-> 2, name |-> JaneSmith, email |-> JaneEmail,
      createdAt |-> Jan2, updatedAt |-> Jan2] >>

Min(S) == CHOOSE x \in S : \A y \in S : x <= y

\* findIndex whose miss is taken for the last position, as splice(-1, 1)
\* takes it
findIndexMissIsLast(us, id) ==
  LET I == {i \in 1..Len(us) : us[i].id = id}
  IN IF I = {} THEN Len(us) ELSE Min(I)

\* Array.prototype.findIndex(user => user.id === userId); 0 stands for -1
\* because sequences are indexed from 1
findIndex(us, id) ==
  LET I == {i \in 1..Len(us) : us[i].id = id}
  IN IF I = {} THEN 0 ELSE Min(I)

findAll(us) == us

findById(us, id) ==
  LET I == {i \in 1..Len(us) : us[i].id = id}
  IN IF I = {} THEN undefined ELSE Some(us[Min(I)])

\* findByEmail comparing the emails as they are (no toLowerCase)
findByEmailExact(us, email) ==
  LET I == {i \in 1..Len(us) : us[i].email = email}
  IN IF I = {} THEN undefined ELSE Some(us[Min(I)])

findByEmail(us, email) ==
  LET I == {i \in 1..Len(us) : toLowerCase(us[i].email) = toLowerCase(email)}
  IN IF I = {} THEN undefined ELSE Some(us[Min(I)])

\* search that lower-cases the users' fields but not the query
searchNoLowerQuery(us, query) ==
  LET Keep(user) == \/ includes(toLowerCase(user.name), query)
                    \/ includes(toLowerCase(user.email), query)
  IN SelectSeq(us, Keep)

search(us, query) ==
  LET lowercaseQuery == toLowerCase(query)
      Keep(user) == \/ includes(toLowerCase(user.name), lowercaseQuery)
                    \/ includes(toLowerCase(user.email), lowercaseQuery)
  IN SelectSeq(us, Keep)

\* newUser with the two Date readings assigned the other way round
newUserStampsSwapped(name, email, tId, tCreated, tUpdated) ==
  [id |-> tId, name |-> name, email |-> email,
   createdAt |-> tUpdated, updatedAt |-> tCreated]

\* The three clock readings of create are Date.now(), new Date(), new Date()
newUser(name, email, tId, tCreated, tUpdated) ==
  [id |-> tId, name |-> name, email |-> email,
   createdAt |-> tCreated, updatedAt |-> tUpdated]

\* create that builds the user but does not push it
createNoPush(us, name, email, tId, tCreated, tUpdated) == us

\* create, after its validation: this.users.push(newUser)
create(us, name, email, tId, tCreated, tUpdated) ==
  Append(us, newUser(name, email, tId, tCreated, tUpdated))

\* updatedUser that takes createdAt from the clock (createdAt: new Date())
updatedUserNewCreatedAt(existingUser, name, email, t) ==
  [id |-> existingUser.id,
   name |-> IF name = undefined THEN existingUser.name ELSE name[1],
   email |-> IF email = undefined THEN existingUser.email ELSE email[1],
   createdAt |-> t,
   updatedAt |-> t]

\* update, for a userIndex that was found
updatedUser(existingUser, name, email, t) ==
  [id |-> existingUser.id,
   name |-> IF name = undefined THEN existingUser.name ELSE name[1],
   email |-> IF email = undefined THEN existingUser.email ELSE email[1],
   createdAt |-> existingUser.createdAt,
   updatedAt |-> t]

update(us, userIndex, name, email, t) ==
  [us EXCEPT ![userIndex] = updatedUser(us[userIndex], name, email, t)]

\* this.users.splice(userIndex, 1)
splice(us, userIndex) ==
  SubSeq(us, 1, userIndex - 1) \o SubSeq(us, userIndex + 1, Len(us))

exists(us, id) == findById(us, id) # undefined

count(us) == Len(us)

\* One reading of the clock at or after t: the clock never goes backwards
\* and may return the same millisecond twice
ClockReads(t) == {r \in t..MaxTime : r <= t + 1}

\* Ids a caller may pass: the ids in the store and one that is unknown
IdInputs == {users[i].id : i \in 1..Len(users)} \cup {UnknownId}

\* ------------------------------------------------------------------------
\* Records of calls (history, for stating what a call returned)
\* ------------------------------------------------------------------------
\* op: the operation; id, name, email, query: its arguments; thrown: the
\* message of the Error it threw (NoError when it returned); ret: the user or
\* users it returned; flag: the boolean it returned (delete), or whether the
\* repository's create was called (createUser); emailFree / idFree: whether,
\* when the call began, no stored user held the email (case-insensitively)
\* and no user had ever held the id the call assigned
Call(op, id, name, email, query, thrown, ret, flag, emailFree, idFree) ==
  [op |-> op, id |-> id, name |-> name, email |-> email, query |-> query,
   thrown |-> thrown, ret |-> ret, flag |-> flag,
   emailFree |-> emailFree, idFree |-> idFree]

NoCall ==
  Call("none", UnknownId, undefined, undefined, EmptyString, NoError, <<>>,
       FALSE, FALSE, FALSE)

\* What prev keeps of a call
Summary(c) ==
  [op |-> c.op, name |-> c.name, email |-> c.email, thrown |-> c.thrown,
   emailFree |-> c.emailFree]

\* Two characters are the same letter up to case
SameLetter(a, b) ==
  \/ a = b
  \/ \E i \in 1..Len(UpperChars) :
       {a, b} = {UpperChars[i], LowerChars[i]}

\* Two strings are equal up to letter case
EqualCI(s, t) ==
  /\ Len(s) = Len(t)
  /\ \A i \in 1..Len(s) : SameLetter(s[i], t[i])

\* Some user of us holds the (optional) email, compared case-insensitively
HeldCI(us, email) ==
  /\ email # undefined
  /\ \E i \in 1..Len(us) : EqualCI(us[i].email, email[1])

IdsOf(us) == {us[i].id : i \in 1..Len(us)}

\* An asynchronous createUser call: pc is where it stands; existingUser is
\* what its findByEmail returned; thrown is the message of its rejection;
\* ret is the user it resolved with; calledCreate is whether it called the
\* repository's create; emailHeld is whether, when the call began, a stored
\* user held its email (case-insensitively)
AsyncCall(pc, name, email, existingUser, thrown, ret, calledCreate, emailHeld) ==
  [pc |-> pc, name |-> name, email |-> email, existingUser |-> existingUser,
   thrown |-> thrown, ret |-> ret, calledCreate |-> calledCreate,
   emailHeld |-> emailHeld]

IdleCall ==
  AsyncCall("idle", EmptyString, EmptyString, undefined, NoError, undefined,
            FALSE, FALSE)

Common ==
  /\ users = SeedUsers
  /\ now = StartTime
  /\ last = NoCall
  /\ prev = Summary(NoCall)
  /\ calls = [c \in 1..MaxCalls |-> IdleCall]
  /\ everIds = IdsOf(SeedUsers)
  /\ res = NoReply
  /\ rejection = NoError
  /\ logs = <<>>
  /\ sent = 0
  /\ loggers = InitLoggers
  /\ proc = ProcStart

Init == Common /\ variant = "sync"

InitAsync == Common /\ variant = "async"

InitEither == Common /\ variant \in {"sync", "async"}

\* ------------------------------------------------------------------------
\* The repository's methods, run on behalf of the call named op
\* ------------------------------------------------------------------------
\* create whose validation looks at the name only (if (!data.name) throw)
DoCreateNameOnly(op, name, email, flag) ==
  /\ IF Falsy(name)
     THEN /\ last' = Call(op, UnknownId, name, email, EmptyString,
                          MsgRequired, <<>>, flag,
                          ~HeldCI(users, email), FALSE)
          /\ UNCHANGED <<users, now>>
     ELSE /\ Len(users) < MaxUsers
          /\ \E tId \in ClockReads(now) :
             \E tCreated \in ClockReads(tId) :
             \E tUpdated \in ClockReads(tCreated) :
               /\ users' = create(users, name[1], email[1],
                                  tId, tCreated, tUpdated)
               /\ now' = tUpdated
               /\ last' = Call(op, UnknownId, name, email, EmptyString,
                               NoError, <<users'[Len(users')]>>, flag,
                               ~HeldCI(users, email),
                               tId \notin everIds)
  /\ everIds' = everIds \cup IdsOf(users')

\* UserRepository.create(data); flag is recorded with the call
DoCreate(op, name, email, flag) ==
  /\ IF Falsy(name) \/ Falsy(email)
     THEN /\ last' = Call(op, UnknownId, name, email, EmptyString,
                          MsgRequired, <<>>, flag,
                          ~HeldCI(users, email), FALSE)
          /\ UNCHANGED <<users, now>>
     ELSE /\ Len(users) < MaxUsers
          /\ \E tId \in ClockReads(now) :
             \E tCreated \in ClockReads(tId) :
             \E tUpdated \in ClockReads(tCreated) :
               /\ users' = create(users, name[1], email[1],
                                  tId, tCreated, tUpdated)
               /\ now' = tUpdated
               /\ last' = Call(op, UnknownId, name, email, EmptyString,
                               NoError, <<users'[Len(users')]>>, flag,
                               ~HeldCI(users, email),
                               tId \notin everIds)
  /\ everIds' = everIds \cup IdsOf(users')

\* UserRepository.update(id, data)
DoUpdate(op, id, name, email) ==
  LET userIndex == findIndex(users, id)
  IN /\ IF userIndex = 0
        THEN /\ last' = Call(op, id, name, email, EmptyString,
                             NoError, undefined, FALSE, FALSE, FALSE)
             /\ UNCHANGED <<users, now>>
        ELSE \E t \in ClockReads(now) :
               /\ users' = update(users, userIndex, name, email, t)
               /\ now' = t
               /\ last' = Call(op, id, name, email, EmptyString,
                               NoError, Some(users'[userIndex]), FALSE,
                               FALSE, FALSE)
     /\ UNCHANGED everIds

\* UserRepository.delete(id)
DoDelete(op, id) ==
  LET userIndex == findIndex(users, id)
  IN /\ IF userIndex = 0
        THEN /\ last' = Call(op, id, undefined, undefined, EmptyString,
                             NoError, <<>>, FALSE, FALSE, FALSE)
             /\ UNCHANGED users
        ELSE /\ users' = splice(users, userIndex)
             /\ last' = Call(op, id, undefined, undefined, EmptyString,
                             NoError, <<>>, TRUE, FALSE, FALSE)
     /\ UNCHANGED <<now, everIds>>

\* ------------------------------------------------------------------------
\* Calls made directly on the repository
\* ------------------------------------------------------------------------
RepoCreate(name, email) ==
  /\ DoCreate("create", name, email, FALSE)
  /\ UNCHANGED <<prev, calls, variant, res, rejection, logs, sent, loggers, proc>>

RepoUpdate(id, name, email) ==
  /\ DoUpdate("update", id, name, email)
  /\ UNCHANGED <<prev, calls, variant, res, rejection, logs, sent, loggers, proc>>

RepoDelete(id) ==
  /\ DoDelete("delete", id)
  /\ UNCHANGED <<prev, calls, variant, res, rejection, logs, sent, loggers, proc>>

\* UserRepository.search(query)
RepoSearch(query) ==
  /\ last' = Call("search", UnknownId, undefined, undefined, query,
                  NoError, search(users, query), FALSE, FALSE, FALSE)
  /\ UNCHANGED <<users, now, prev, calls, everIds, variant, res, rejection, logs, sent, loggers, proc>>

NextRepo ==
  \/ \E in \in RepoCreateInputs : RepoCreate(in[1], in[2])
  \/ \E id \in IdInputs, in \in RepoPatches : RepoUpdate(id, in[1], in[2])
  \/ \E id \in IdInputs : RepoDelete(id)

SpecRepo == Init /\ [][NextRepo]_vars

\* search is a pure function of the store and the query.  It is applied to
\* stores the program reaches by creating users after the seeded ones and
\* deleting some: the seeded users, a user created with a lower-case email
\* and a user created with an upper-case one, in that order, some left out.
SearchPool ==
  SeedUsers \o
  << newUser(Bob, BobEmail, StartTime, StartTime, StartTime),
     newUser(Al, JohnEmailUpper, MaxTime, MaxTime, MaxTime) >>

\* The subsequence of s that keeps the positions in keep
Pick(s, keep) == SelectSeq([i \in 1..Len(s) |->
                              IF i \in keep THEN <<s[i]>> ELSE <<>>],
                           LAMBDA e : e # <<>>)

SearchStores ==
  { [i \in 1..Len(Pick(SearchPool, keep)) |-> Pick(SearchPool, keep)[i][1]] :
      keep \in {k \in SUBSET (1..Len(SearchPool)) : Cardinality(k) <= MaxUsers} }

InitSearch ==
  /\ users \in SearchStores
  /\ now = MaxTime
  /\ last = NoCall
  /\ prev = Summary(NoCall)
  /\ calls = [c \in 1..MaxCalls |-> IdleCall]
  /\ everIds = IdsOf(SearchPool)
  /\ variant = "sync"
  /\ res = NoReply
  /\ rejection = NoError
  /\ logs = <<>>
  /\ sent = 0
  /\ loggers = InitLoggers
  /\ proc = ProcStart

NextSearch ==
  \/ \E query \in Queries : RepoSearch(query)
  \/ \E id \in IdInputs : RepoDelete(id)

SpecSearch == InitSearch /\ [][NextSearch]_vars

\* ------------------------------------------------------------------------
\* The synchronous UserService (src/src/repositories/IRepository.ts)
\* ------------------------------------------------------------------------
\* createUser without the check of existingUser
SvcCreateUserNoCheck(name, email) ==
  /\ variant = "sync"
  /\ DoCreate("createUser", Some(name), Some(email), TRUE)
  /\ prev' = Summary(last)
  /\ UNCHANGED <<calls, variant, res, rejection, logs, sent, loggers, proc>>

\* UserService.createUser(userData)
SvcCreateUser(name, email) ==
  /\ variant = "sync"
  /\ LET existingUser == findByEmail(users, email)
     IN IF existingUser # undefined
        THEN /\ last' = Call("createUser", UnknownId, Some(name), Some(email),
                             EmptyString, MsgConflict, <<>>, FALSE,
                             ~HeldCI(users, Some(email)), FALSE)
             /\ UNCHANGED <<users, now, everIds>>
        ELSE DoCreate("createUser", Some(name), Some(email), TRUE)
  /\ prev' = Summary(last)
  /\ UNCHANGED <<calls, variant, res, rejection, logs, sent, loggers, proc>>

\* UserService.updateUser(id, userData)
SvcUpdateUser(id, name, email) ==
  /\ variant = "sync"
  /\ DoUpdate("updateUser", id, name, email)
  /\ prev' = Summary(last)
  /\ UNCHANGED <<calls, variant, res, rejection, logs, sent, loggers, proc>>

\* UserService.deleteUser(id)
SvcDeleteUser(id) ==
  /\ variant = "sync"
  /\ DoDelete("deleteUser", id)
  /\ prev' = Summary(last)
  /\ UNCHANGED <<calls, variant, res, rejection, logs, sent, loggers, proc>>

NextService ==
  \/ \E in \in SvcCreateInputs : SvcCreateUser(in[1], in[2])
  \/ \E id \in IdInputs, in \in SvcPatches : SvcUpdateUser(id, in[1], in[2])
  \/ \E id \in IdInputs : SvcDeleteUser(id)

SpecService == Init /\ [][NextService]_vars

\* ------------------------------------------------------------------------
\* The asynchronous UserService (src/src/services/UserService.ts)
\* ------------------------------------------------------------------------
\* createUser is called: it runs up to its first await, after findByEmail
\* has returned
AsyncCreateUserCall(c, name, email) ==
  /\ variant = "async"
  /\ calls[c].pc = "idle"
  /\ calls' = [calls EXCEPT ![c] =
                 AsyncCall("awaitFind", name, email,
                           findByEmail(users, email), NoError, undefined,
                           FALSE, HeldCI(users, Some(email)))]
  /\ UNCHANGED <<users, now, last, prev, everIds, variant, res, rejection, logs, sent, loggers, proc>>

\* createUser resumes after its first await: it throws if findByEmail had
\* found a user, and otherwise calls create and runs up to its second await
AsyncCreateUserAfterFind(c) ==
  LET call == calls[c]
  IN /\ call.pc = "awaitFind"
     /\ IF call.existingUser # undefined
        THEN /\ calls' = [calls EXCEPT ![c].pc = "rejected",
                                       ![c].thrown = MsgConflict]
             /\ UNCHANGED <<users, now, everIds>>
        ELSE IF call.name = EmptyString \/ call.email = EmptyString
        THEN /\ calls' = [calls EXCEPT ![c].pc = "rejected",
                                       ![c].thrown = MsgRequired,
                                       ![c].calledCreate = TRUE]
             /\ UNCHANGED <<users, now, everIds>>
        ELSE /\ \E tId \in ClockReads(now) :
                \E tCreated \in ClockReads(tId) :
                \E tUpdated \in ClockReads(tCreated) :
                  /\ users' = create(users, call.name, call.email,
                                     tId, tCreated, tUpdated)
                  /\ now' = tUpdated
                  /\ calls' = [calls EXCEPT ![c].pc = "awaitCreate",
                                            ![c].calledCreate = TRUE,
                                            ![c].ret = Some(users'[Len(users')])]
             /\ everIds' = everIds \cup IdsOf(users')
     /\ UNCHANGED <<last, prev, variant, res, rejection, logs, sent, loggers, proc>>

\* createUser resumes after its second await and returns the new user
AsyncCreateUserAfterCreate(c) ==
  /\ calls[c].pc = "awaitCreate"
  /\ calls' = [calls EXCEPT ![c].pc = "resolved"]
  /\ UNCHANGED <<users, now, last, prev, everIds, variant, res, rejection, logs, sent, loggers, proc>>

NextAsync ==
  \/ \E c \in 1..MaxCalls, in \in SvcCreateInputs :
       AsyncCreateUserCall(c, in[1], in[2])
  \/ \E c \in 1..MaxCalls : AsyncCreateUserAfterFind(c)
  \/ \E c \in 1..MaxCalls : AsyncCreateUserAfterCreate(c)

SpecAsync == InitAsync /\ [][NextAsync]_vars

\* The program built with either UserService
SpecEither == InitEither /\ [][NextService \/ NextAsync]_vars

\* ------------------------------------------------------------------------
\* UserController (src/src/controllers/UserController.ts).  The handlers
\* call the UserService without await: with the synchronous service a call
\* returns its value or throws into the handler's try block; with the
\* asynchronous service a call returns a Promise, which is truthy, whose
\* JSON form is {} and whose rejection no try block catches.
\* ------------------------------------------------------------------------
\* res.status(status).json({ success: false, message })
jsonFailure(by, req, status, message) ==
  Reply(by, req, status, {"success", "message"},
        FALSE, message, "", <<>>, NoData, 0, 0)

\* res.status(status).json({ success: true, data })
jsonData(by, req, status, data) ==
  Reply(by, req, status, {"success", "data"},
        TRUE, "", "", <<>>, data, 0, 0)

\* res.status(status).json({ success: true, data, message })
jsonDataMessage(by, req, status, data, message) ==
  Reply(by, req, status, {"success", "data", "message"},
        TRUE, message, "", <<>>, data, 0, 0)

\* Whether UserRepository.findByEmail throws: email.toLowerCase() is called
\* for the first stored user, and is not a function when email is a number
findByEmailThrows(us, email) == IsNumber(email) /\ Len(us) > 0

\* ------------------------------------------------------------------------
\* The log records a controller call causes.  The handlers hold no logger;
\* the records are those of the UserService methods they call, which log
\* with the context { module: 'UserService' }.  message is the text of the
\* template and args the values it interpolates.
\* ------------------------------------------------------------------------
LogRecord(level, context, message, args, err) ==
  [level |-> level, context |-> context, message |-> message,
   args |-> args, err |-> err]

SvcLog(level, message, args) ==
  LogRecord(level, {<<"module", "UserService">>}, message, args, NoError)

\* searchUsers or getAllUsers
getUsersLogs(req) ==
  IF Truthy(req.search)
  THEN << SvcLog("debug", "Searching users with query: ${query}",
                 <<req.search[1]>>),
          SvcLog("info", "Found ${users.length} users matching query: ${query}",
                 <<Len(search(users, req.search[1])), req.search[1]>>) >>
  ELSE << SvcLog("debug", "Fetching all users", <<>>),
          SvcLog("info", "Found ${users.length} users", <<Len(users)>>) >>

\* getUserById
getUserByIdLogs(req) ==
  IF Falsy(req.id) \/ isNaN(parseInt(req.id[1])) THEN <<>>
  ELSE LET userId == parseInt(req.id[1])[1]
           user == findById(users, userId)
       IN << SvcLog("debug", "Fetching user with ID: ${id}", <<userId>>),
             IF user # undefined
             THEN SvcLog("info", "User found: ${user.email}", <<user[1].email>>)
             ELSE SvcLog("warn", "User not found with ID: ${id}", <<userId>>) >>

\* getUserByEmail, then createUser when the handler reaches it; created is
\* the user the repository returned
createUserLogs(req, created) ==
  IF Falsy(req.name) \/ Falsy(req.email) THEN <<>>
  ELSE << SvcLog("debug", "Fetching user by email: ${email}",
                 <<req.email[1]>>) >>
       \o (IF created = undefined THEN <<>>
           ELSE << SvcLog("debug", "Creating user: ${userData.email}",
                          <<req.email[1]>>),
                   SvcLog("info",
                     "User created successfully: ${newUser.email} (ID: ${newUser.id})",
                     <<created[1].email, created[1].id>>) >>)

\* updateUser; updated is what the repository returned
updateUserLogs(req, updated) ==
  IF Falsy(req.id) \/ isNaN(parseInt(req.id[1])) THEN <<>>
  ELSE LET userId == parseInt(req.id[1])[1]
       IN << SvcLog("debug", "Updating user with ID: ${id}", <<userId>>),
             IF updated # undefined
             THEN SvcLog("info", "User updated successfully: ${updatedUser.email}",
                         <<updated[1].email>>)
             ELSE SvcLog("warn",
                    "Failed to update user with ID: ${id} - not found",
                    <<userId>>) >>

\* deleteUser; deleted is what the repository returned
deleteUserLogs(req, deleted) ==
  IF Falsy(req.id) \/ isNaN(parseInt(req.id[1])) THEN <<>>
  ELSE LET userId == parseInt(req.id[1])[1]
       IN << SvcLog("debug", "Deleting user with ID: ${id}", <<userId>>),
             IF deleted
             THEN SvcLog("info", "User deleted successfully (ID: ${id})",
                         <<userId>>)
             ELSE SvcLog("warn",
                    "Failed to delete user with ID: ${id} - not found",
                    <<userId>>) >>

\* What the handlers leave alone
HandlerFrame == UNCHANGED <<prev, calls, variant, loggers, proc>>

\* A handler that reaches no mutator of the repository
ReadOnly ==
  /\ last' = NoCall
  /\ UNCHANGED <<users, now, everIds>>

\* GET /users
getUsers(req) ==
  /\ LET list == IF Truthy(req.search)
                 THEN search(users, req.search[1])
                 ELSE findAll(users)
     IN res' = IF variant = "sync"
               THEN Reply("getUsers", req, 200,
                          {"success", "data", "count"}, TRUE, "", "", <<>>,
                          UsersData(list), Len(list), 0)
               ELSE jsonData("getUsers", req, 200, PromiseData)
  /\ rejection' = NoError
  /\ ReadOnly
  /\ logs' = getUsersLogs(req)
  /\ sent' = 1
  /\ HandlerFrame

\* GET /users/:id
getUserById(req) ==
  /\ IF Falsy(req.id)
     THEN res' = jsonFailure("getUserById", req, 400, MsgIdRequired)
     ELSE LET userId == parseInt(req.id[1])
          IN IF isNaN(userId)
             THEN res' = jsonFailure("getUserById", req, 400, MsgInvalidId)
             ELSE IF variant = "sync"
             THEN LET user == findById(users, userId[1])
                  IN IF user = undefined
                     THEN res' = jsonFailure("getUserById", req, 404,
                                             MsgUserNotFound)
                     ELSE res' = jsonData("getUserById", req, 200,
                                          UserData(user[1]))
             ELSE res' = jsonData("getUserById", req, 200, PromiseData)
  /\ rejection' = NoError
  /\ ReadOnly
  /\ logs' = getUserByIdLogs(req)
  /\ sent' = 1
  /\ HandlerFrame

\* createUser calling the service's createUser before it answers 409
createUserConflictAfterCreate(req) ==
  /\ DoCreate("createUser", req.name, req.email, TRUE)
  /\ res' = jsonFailure("createUser", req, 409, MsgConflict)
  /\ rejection' = NoError

\* createUser, the synchronous service having found a user with the email
createUserConflict(req) ==
  /\ res' = jsonFailure("createUser", req, 409, MsgConflict)
  /\ rejection' = NoError
  /\ ReadOnly

\* POST /users
createUser(req) ==
  /\ IF Falsy(req.name) \/ Falsy(req.email)
     THEN /\ res' = jsonFailure("createUser", req, 400, MsgRequired)
          /\ rejection' = NoError
          /\ ReadOnly
     ELSE IF variant = "async"
     THEN \* existingUser is a Promise: truthy whatever it settles to
          /\ res' = jsonFailure("createUser", req, 409, MsgConflict)
          /\ rejection' = IF findByEmailThrows(users, req.email[1])
                          THEN TypeError ELSE NoError
          /\ ReadOnly
     ELSE IF findByEmailThrows(users, req.email[1])
     THEN \* thrown inside try: caught
          /\ res' = jsonFailure("createUser", req, 500, MsgInternal)
          /\ rejection' = NoError
          /\ ReadOnly
     ELSE IF findByEmail(users, req.email[1]) # undefined
     THEN createUserConflict(req)
     ELSE \* UserService.createUser: its own findByEmail finds nothing
          \* either, so it calls the repository's create
          /\ DoCreate("createUser", req.name, req.email, TRUE)
          /\ res' = jsonDataMessage("createUser", req, 201,
                                    UserData(users'[Len(users')]), MsgCreated)
          /\ rejection' = NoError
  /\ logs' = createUserLogs(req, IF Len(users') > Len(users)
                                  THEN Some(users'[Len(users')]) ELSE undefined)
  /\ sent' = 1
  /\ HandlerFrame

\* PUT /users/:id
updateUser(req) ==
  /\ IF Falsy(req.id)
     THEN /\ res' = jsonFailure("updateUser", req, 400, MsgIdRequired)
          /\ ReadOnly
     ELSE LET userId == parseInt(req.id[1])
          IN IF isNaN(userId)
             THEN /\ res' = jsonFailure("updateUser", req, 400, MsgInvalidId)
                  /\ ReadOnly
             ELSE /\ DoUpdate("updateUser", userId[1], req.name, req.email)
                  /\ res' =
                       IF variant = "async"
                       THEN jsonDataMessage("updateUser", req, 200,
                                            PromiseData, MsgUpdated)
                       ELSE IF last'.ret = undefined
                       THEN jsonFailure("updateUser", req, 404,
                                        MsgUserNotFound)
                       ELSE jsonDataMessage("updateUser", req, 200,
                                            UserData(last'.ret[1]), MsgUpdated)
  /\ rejection' = NoError
  /\ logs' = updateUserLogs(req, last'.ret)
  /\ sent' = 1
  /\ HandlerFrame

\* DELETE /users/:id
deleteUser(req) ==
  /\ IF Falsy(req.id)
     THEN /\ res' = jsonFailure("deleteUser", req, 400, MsgIdRequired)
          /\ ReadOnly
     ELSE LET userId == parseInt(req.id[1])
          IN IF isNaN(userId)
             THEN /\ res' = jsonFailure("deleteUser", req, 400, MsgInvalidId)
                  /\ ReadOnly
             ELSE /\ DoDelete("deleteUser", userId[1])
                  /\ res' =
                       IF variant = "sync" /\ ~last'.flag
                       THEN jsonFailure("deleteUser", req, 404,
                                        MsgUserNotFound)
                       ELSE Reply("deleteUser", req, 200,
                                  {"success", "message"}, TRUE, MsgDeleted,
                                  "", <<>>, NoData, 0, 0)
  /\ rejection' = NoError
  /\ logs' = deleteUserLogs(req, last'.flag)
  /\ sent' = 1
  /\ HandlerFrame

\* ------------------------------------------------------------------------
\* The router (src/src/routes/userRoutes.ts) and requests over HTTP
\* ------------------------------------------------------------------------
\* The handler the router has registered for the request's method and
\* path, "none" when no route matches
Dispatch(req) ==
  CASE req.method = "GET" /\ req.path = "/users" -> "getUsers"
    [] req.method = "GET" /\ req.path = "/users/:id" -> "getUserById"
    [] req.method = "POST" /\ req.path = "/users" -> "createUser"
    [] OTHER -> "none"

\* A request no route matches leaves the router and reaches the notFound
\* middleware (src/src/index.ts); of its reply only the status is modelled
notFound(req) ==
  /\ res' = Reply("notFound", req, 404, {}, FALSE, "", "",
                  <<>>, NoData, 0, 0)
  /\ rejection' = NoError
  /\ ReadOnly
  /\ logs' = <<>>
  /\ sent' = 1
  /\ HandlerFrame

\* One request served by the application
HttpRequest(req) ==
  LET handler == Dispatch(req)
  IN CASE handler = "getUsers" -> getUsers(req)
       [] handler = "getUserById" -> getUserById(req)
       [] handler = "createUser" -> createUser(req)
       [] OTHER -> notFound(req)

Abc == <<"a","b","c">>
OneAbc == <<"1","a","b","c">>
Jo == <<"j","o">>

\* The id segment of a request path: the ids in the store, an unknown id,
\* a segment with no digit and a segment that starts with the digit 1
HttpIdParams ==
  {numberToString(i) : i \in IdsOf(users) \cup {UnknownId}} \cup {Abc, OneAbc}

\* Bodies of POST /users: <<name, email>>
HttpBodies ==
  { <<Some(Bob), Some(BobEmail)>>, <<Some(Bob), Some(JohnEmailUpper)>>,
    <<undefined, Some(BobEmail)>>, <<Some(Bob), Some(EmptyString)>>,
    <<Some(Bob), Some(NumberValue)>> }

HttpRequests ==
  {Req("GET", "/users", undefined, undefined, undefined, q) :
     q \in {undefined, Some(Jo)}}
  \cup {Req("GET", "/users/:id", Some(p), undefined, undefined, undefined) :
          p \in HttpIdParams}
  \cup {Req("POST", "/users", undefined, b[1], b[2], undefined) :
          b \in HttpBodies}
  \cup {Req("PUT", "/users/:id", Some(p), Some(Al), undefined, undefined) :
          p \in HttpIdParams}
  \cup {Req("DELETE", "/users/:id", Some(p), undefined, undefined, undefined) :
          p \in HttpIdParams}

NextHttp == \E req \in HttpRequests : HttpRequest(req)

SpecHttp == InitEither /\ [][NextHttp]_vars

\* ------------------------------------------------------------------------
\* The handlers called directly, as a caller that holds the controller can
\* ------------------------------------------------------------------------
HandlerIdParams ==
  {undefined, Some(Abc)}
  \cup {Some(numberToString(i)) : i \in IdsOf(users) \cup {UnknownId}}

HandlerBodies ==
  { <<Some(Bob), Some(BobEmail)>>, <<undefined, Some(BobEmail)>> }

\* Bodies of PUT /users/:id: <<name, email>>
HandlerPatches == { <<Some(EmptyString), undefined>> }

NextHandlers ==
  \/ \E q \in {undefined, Some(Jo)} :
       getUsers(Req("GET", "/users", undefined, undefined, undefined, q))
  \/ \E p \in HandlerIdParams :
       getUserById(Req("GET", "/users/:id", p, undefined, undefined,
                       undefined))
  \/ \E b \in HandlerBodies :
       createUser(Req("POST", "/users", undefined, b[1], b[2], undefined))
  \/ \E p \in HandlerIdParams : \E b \in HandlerPatches :
       updateUser(Req("PUT", "/users/:id", p, b[1], b[2], undefined))
  \/ \E p \in HandlerIdParams :
       deleteUser(Req("DELETE", "/users/:id", p, undefined, undefined,
                      undefined))

SpecHandlers == InitEither /\ [][NextHandlers]_vars

\* ------------------------------------------------------------------------
\* HttpResponse, the response envelope helpers (src/README.md)
\* ------------------------------------------------------------------------
HttpStatus ==
  [OK |-> 200, CREATED |-> 201, ACCEPTED |-> 202, NO_CONTENT |-> 204,
   BAD_REQUEST |-> 400, UNAUTHORIZED |-> 401, FORBIDDEN |-> 403,
   NOT_FOUND |-> 404, METHOD_NOT_ALLOWED |-> 405, CONFLICT |-> 409,
   UNPROCESSABLE_ENTITY |-> 422, INTERNAL_SERVER_ERROR |-> 500,
   NOT_IMPLEMENTED |-> 501, BAD_GATEWAY |-> 502, SERVICE_UNAVAILABLE |-> 503]

\* A default parameter value (message: string = d): taken for undefined only
OrDefault(o, d) == IF o = undefined THEN d ELSE o[1]

\* message || d: d is taken for undefined and for ''
OrElse(message, d) ==
  IF message = undefined \/ message[1] = "" THEN d ELSE message[1]

\* success(res, data, message?, statusCode = OK), its timestamp read as t
HttpResponse_success(data, message, statusCode, t) ==
  Reply("success", NoReq, OrDefault(statusCode, HttpStatus.OK),
        {"success", "message", "data", "timestamp"},
        TRUE, OrElse(message, "Success"), "", <<>>, data, 0, t)

HttpResponse_created(data, message, t) ==
  [HttpResponse_success(data,
                        Some(OrElse(message, "Resource created successfully")),
                        Some(HttpStatus.CREATED), t)
     EXCEPT !.by = "created"]

\* res.status(NO_CONTENT).send(): no body
HttpResponse_noContent ==
  Reply("noContent", NoReq, HttpStatus.NO_CONTENT, {}, FALSE, "", "",
        <<>>, NoData, 0, 0)

\* error that leaves the error member out of the body
HttpResponse_errorNoErrorMember(message, statusCode, errors, t) ==
  Reply("error", NoReq, OrDefault(statusCode, HttpStatus.INTERNAL_SERVER_ERROR),
        {"success", "message", "timestamp"}
          \cup (IF errors = undefined THEN {} ELSE {"errors"}),
        FALSE, message, "", OrDefault(errors, <<>>), NoData, 0, t)

\* error(res, message, statusCode = INTERNAL_SERVER_ERROR, errors?); an
\* array, empty or not, is truthy, so ...(errors && { errors }) adds the
\* member whenever a list was passed
HttpResponse_error(message, statusCode, errors, t) ==
  Reply("error", NoReq, OrDefault(statusCode, HttpStatus.INTERNAL_SERVER_ERROR),
        {"success", "message", "error", "timestamp"}
          \cup (IF errors = undefined THEN {} ELSE {"errors"}),
        FALSE, message, message, OrDefault(errors, <<>>), NoData, 0, t)

HttpResponse_badRequest(message, errors, t) ==
  [HttpResponse_error(OrDefault(message, "Bad Request"),
                      Some(HttpStatus.BAD_REQUEST), errors, t)
     EXCEPT !.by = "badRequest"]

HttpResponse_unauthorized(message, t) ==
  [HttpResponse_error(OrDefault(message, "Unauthorized"),
                      Some(HttpStatus.UNAUTHORIZED), undefined, t)
     EXCEPT !.by = "unauthorized"]

HttpResponse_forbidden(message, t) ==
  [HttpResponse_error(OrDefault(message, "Forbidden"),
                      Some(HttpStatus.FORBIDDEN), undefined, t)
     EXCEPT !.by = "forbidden"]

HttpResponse_notFound(message, t) ==
  [HttpResponse_error(OrDefault(message, "Resource not found"),
                      Some(HttpStatus.NOT_FOUND), undefined, t)
     EXCEPT !.by = "notFound"]

HttpResponse_conflict(message, t) ==
  [HttpResponse_error(OrDefault(message, "Resource already exists"),
                      Some(HttpStatus.CONFLICT), undefined, t)
     EXCEPT !.by = "conflict"]

HttpResponse_unprocessableEntity(message, errors, t) ==
  [HttpResponse_error(OrDefault(message, "Validation failed"),
                      Some(HttpStatus.UNPROCESSABLE_ENTITY), errors, t)
     EXCEPT !.by = "unprocessableEntity"]

HttpResponse_internalError(message, t) ==
  [HttpResponse_error(OrDefault(message, "Internal Server Error"),
                      Some(HttpStatus.INTERNAL_SERVER_ERROR), undefined, t)
     EXCEPT !.by = "internalError"]

HttpResponse_serviceUnavailable(message, t) ==
  [HttpResponse_error(OrDefault(message, "Service Unavailable"),
                      Some(HttpStatus.SERVICE_UNAVAILABLE), undefined, t)
     EXCEPT !.by = "serviceUnavailable"]

\* A helper is called and sends reply; last records the call: its statusCode
\* argument as id (UnknownId when none was passed) and, as flag, whether an
\* errors list was passed
Send(reply, statusCode, errors) ==
  /\ res' = reply
  /\ now' = IF "timestamp" \in reply.fields THEN reply.timestamp ELSE now
  /\ last' = Call(reply.by, OrDefault(statusCode, UnknownId), undefined,
                  undefined, EmptyString, NoError, <<>>, errors # undefined,
                  FALSE, FALSE)
  /\ UNCHANGED <<users, prev, calls, everIds, variant, rejection, logs, sent, loggers, proc>>

EnvData == { UserData(SeedUsers[1]), UsersData(SeedUsers), UsersData(<<>>) }
EnvMessages == { undefined, Some(""), Some("Done") }
EnvStatusCodes == { undefined, Some(HttpStatus.ACCEPTED) }
EnvErrorLists == { undefined, Some(<<>>), Some(<<"email is required">>) }

NextEnvelope ==
  \/ \E data \in EnvData, m \in EnvMessages, sc \in EnvStatusCodes,
        t \in ClockReads(now) :
       Send(HttpResponse_success(data, m, sc, t), sc, undefined)
  \/ \E data \in EnvData, m \in EnvMessages, t \in ClockReads(now) :
       Send(HttpResponse_created(data, m, t), undefined, undefined)
  \/ Send(HttpResponse_noContent, undefined, undefined)
  \/ \E m \in EnvMessages, e \in EnvErrorLists, t \in ClockReads(now) :
       Send(HttpResponse_badRequest(m, e, t), undefined, e)
  \/ \E m \in EnvMessages, t \in ClockReads(now) :
       Send(HttpResponse_unauthorized(m, t), undefined, undefined)
  \/ \E m \in EnvMessages, t \in ClockReads(now) :
       Send(HttpResponse_forbidden(m, t), undefined, undefined)
  \/ \E m \in EnvMessages, t \in ClockReads(now) :
       Send(HttpResponse_notFound(m, t), undefined, undefined)
  \/ \E m \in EnvMessages, t \in ClockReads(now) :
       Send(HttpResponse_conflict(m, t), undefined, undefined)
  \/ \E m \in EnvMessages, e \in EnvErrorLists, t \in ClockReads(now) :
       Send(HttpResponse_unprocessableEntity(m, e, t), undefined, e)
  \/ \E m \in EnvMessages, t \in ClockReads(now) :
       Send(HttpResponse_internalError(m, t), undefined, undefined)
  \/ \E m \in EnvMessages, t \in ClockReads(now) :
       Send(HttpResponse_serviceUnavailable(m, t), undefined, undefined)

SpecEnvelope == Init /\ [][NextEnvelope]_vars

\* ------------------------------------------------------------------------
\* Claims about the repository, checked under SpecRepo and SpecSearch
\* ------------------------------------------------------------------------
Range(f) == {f[i] : i \in DOMAIN f}

\* The call that just returned is a repository create that succeeded
Created == last.op = "create" /\ last.thrown = NoError

\* C4: no two stored users have the same id, and create never assigns an
\* id that a user, stored now or deleted earlier, has already held.
C4_IdsUniqueNeverReused ==
  /\ \A i, j \in 1..Len(users) : i # j => users[i].id # users[j].id
  /\ Created => last.idFree

\* C5: after create(name, email) with non-empty name and an email no stored
\* user held, findById of the returned id gives a user with that name and
\* email, and with createdAt equal to updatedAt.
C5_CreateThenFindById ==
  (Created /\ last.emailFree) =>
     LET found == findById(users, last.ret[1].id)
     IN /\ found # undefined
        /\ found[1].name = last.name[1]
        /\ found[1].email = last.email[1]
        /\ found[1].createdAt = found[1].updatedAt

\* C6: every stored user has updatedAt >= createdAt (the clock never goes
\* backwards).
C6_UpdatedNotBeforeCreated ==
  \A i \in 1..Len(users) : users[i].updatedAt >= users[i].createdAt

\* C6 witness: a user created while the program runs has been updated.
C6_Witness ==
  /\ last.op = "update"
  /\ last.ret # undefined
  /\ last.ret[1].createdAt >= StartTime
  /\ last.ret[1].updatedAt > last.ret[1].createdAt

\* The step is update(id, {name: X}) on an id that a stored user has
NameOnlyUpdateStep ==
  /\ last'.op = "update"
  /\ last'.name # undefined
  /\ last'.email = undefined
  /\ last'.id \in IdsOf(users)

\* C7 as stated: update(i, {name: X}) replaces the name and updatedAt of
\* every stored user with id i and nothing else, and leaves updatedAt
\* strictly greater than createdAt.
C7_Original ==
  [][NameOnlyUpdateStep =>
       /\ Len(users') = Len(users)
       /\ \A k \in 1..Len(users) :
            IF users[k].id = last'.id
            THEN /\ users'[k] = [users[k] EXCEPT
                                   !.name = last'.name[1],
                                   !.updatedAt = users'[k].updatedAt]
                 /\ users'[k].updatedAt > users'[k].createdAt
            ELSE users'[k] = users[k]]_vars

\* C7, amended: update(i, {name: X}) replaces the name and updatedAt of the
\* first stored user with id i and nothing else in the store; afterwards
\* that user's updatedAt is greater than or equal to its createdAt.
C7_NameOnlyUpdateFrame ==
  [][NameOnlyUpdateStep =>
       LET first == Min({k \in 1..Len(users) : users[k].id = last'.id})
       IN /\ Len(users') = Len(users)
          /\ \A k \in 1..Len(users) :
               IF k = first
               THEN /\ users'[k] = [users[k] EXCEPT
                                      !.name = last'.name[1],
                                      !.updatedAt = users'[k].updatedAt]
                    /\ users'[k].updatedAt >= users'[k].createdAt
               ELSE users'[k] = users[k]]_vars

\* C7 witness: a name-only update has replaced the name of a user in the
\* millisecond of that user's creation, so updatedAt equals createdAt, and
\* the user's email is still the one it was created with.
C7_Witness ==
  /\ last.op = "update"
  /\ last.name = Some(Al)
  /\ last.email = undefined
  /\ last.ret # undefined
  /\ last.ret[1].name = Al
  /\ last.ret[1].email = BobEmail
  /\ last.ret[1].updatedAt = last.ret[1].createdAt

\* C8: after delete(id), findById(id) returns absent and a second
\* delete(id) returns false (it finds no index to remove).
C8_DeleteThenAbsent ==
  last.op = "delete" =>
     /\ findById(users, last.id) = undefined
     /\ findIndex(users, last.id) = 0

\* q occurs in s as a substring, letters compared without regard to case
ContainsCI(s, q) ==
  \E k \in 0..(Len(s) - Len(q)) :
    \A m \in 1..Len(q) : SameLetter(s[k + m], q[m])

\* C9: search(q) returns exactly the stored users whose name or email
\* contains q case-insensitively: each of them, and no other user.
C9_SearchExact ==
  last.op = "search" =>
     /\ Range(last.ret) \subseteq Range(users)
     /\ \A i \in 1..Len(users) :
          users[i] \in Range(last.ret)
            <=> \/ ContainsCI(users[i].name, last.query)
                \/ ContainsCI(users[i].email, last.query)

\* C9 witness: an upper-case query has matched a lower-case email and left
\* another user out.
C9_Witness ==
  /\ last.op = "search"
  /\ last.query = <<"J","O","H","N">>
  /\ Len(last.ret) >= 1
  /\ Len(last.ret) < Len(users)

\* ------------------------------------------------------------------------
\* Claims about the services, checked under SpecService, SpecAsync and
\* SpecEither
\* ------------------------------------------------------------------------
\* C1: whatever createUser, updateUser and deleteUser calls were made, no
\* two stored users have emails that are equal case-insensitively.
C1_EmailsUniqueCI ==
  \A i, j \in 1..Len(users) :
    i # j => ~EqualCI(users[i].email, users[j].email)

\* The last two service calls were createUser calls whose emails are equal
\* up to letter case, the first made when no stored user held that email
TwoCreatesSameEmail ==
  /\ prev.op = "createUser"
  /\ last.op = "createUser"
  /\ EqualCI(prev.email[1], last.email[1])
  /\ prev.emailFree

\* Exactly one of the two calls returned a user and the other threw the
\* duplicate-email error
OneCreatedOneConflict ==
  \/ prev.thrown = NoError /\ last.thrown = MsgConflict
  \/ prev.thrown = MsgConflict /\ last.thrown = NoError

\* C2 as stated: of two successive createUser calls with emails equal up
\* to case, on a store without that email, exactly one returns a new user
\* and the other fails with the duplicate-email error.
C2_Original == TwoCreatesSameEmail => OneCreatedOneConflict

\* C2, amended: the same, for calls whose names and emails are non-empty.
C2_OneSuccessOneConflict ==
  ( /\ TwoCreatesSameEmail
    /\ prev.name[1] # EmptyString /\ prev.email[1] # EmptyString
    /\ last.name[1] # EmptyString /\ last.email[1] # EmptyString )
  => OneCreatedOneConflict

\* C2 witness: createUser with the upper-case email returned a user and the
\* createUser after it, with the lower-case email, threw the conflict.
C2_Witness ==
  /\ TwoCreatesSameEmail
  /\ prev.email = Some(BobEmailUpper)
  /\ last.email = Some(BobEmail)
  /\ prev.thrown = NoError
  /\ last.thrown = MsgConflict

\* Calls c and d are createUser calls with non-empty names and the same
\* non-empty email whose findByEmail pre-checks both found no user
BothPassedPreCheck(c, d) ==
  /\ c # d
  /\ calls[c].pc # "idle" /\ calls[d].pc # "idle"
  /\ calls[c].email = calls[d].email
  /\ calls[c].email # EmptyString
  /\ calls[c].name # EmptyString /\ calls[d].name # EmptyString
  /\ calls[c].existingUser = undefined
  /\ calls[d].existingUser = undefined

Finished(c) == calls[c].pc \in {"resolved", "rejected"}

\* The stored users that hold the email exactly
Holders(email) == {i \in 1..Len(users) : users[i].email = email}

\* C3: when two concurrent createUser calls with the same email have both
\* passed the findByEmail pre-check before either inserted, both inserts
\* happen: once both calls have finished, both have resolved and the store
\* holds two users with that email.
C3_BothInsert ==
  \A c, d \in 1..MaxCalls :
    (BothPassedPreCheck(c, d) /\ Finished(c) /\ Finished(d)) =>
       /\ calls[c].pc = "resolved"
       /\ calls[d].pc = "resolved"
       /\ Cardinality(Holders(calls[c].email)) >= 2

\* C3 witness: the interleaving exists: two calls with the same email have
\* both passed the pre-check and both resolved, and two stored users hold
\* that email.
C3_Witness ==
  \E c, d \in 1..MaxCalls :
    /\ BothPassedPreCheck(c, d)
    /\ calls[c].pc = "resolved"
    /\ calls[d].pc = "resolved"
    /\ Cardinality(Holders(calls[c].email)) = 2

\* C10, synchronous service: a createUser call made while a stored user
\* held its email threw the conflict error and did not call create.
C10_SyncConflict ==
  (last.op = "createUser" /\ ~last.emailFree) =>
     /\ last.thrown = MsgConflict
     /\ ~last.flag

\* C10, asynchronous service: the same, once the call has resumed after its
\* pre-check.
C10_AsyncConflict ==
  \A c \in 1..MaxCalls :
    (calls[c].emailHeld /\ calls[c].pc \notin {"idle", "awaitFind"}) =>
       /\ calls[c].pc = "rejected"
       /\ calls[c].thrown = MsgConflict
       /\ ~calls[c].calledCreate

\* C10, the store: no step of such a call changes the store.
C10_StoreUnchanged ==
  /\ (last'.op = "createUser" /\ HeldCI(users, last'.email)) => users' = users
  /\ \A c \in 1..MaxCalls :
       (calls'[c] # calls[c] /\ calls'[c].emailHeld) => users' = users

\* C10: createUser called with an email that a stored user already holds
\* (case-insensitively) fails with the conflict error, never calls the
\* repository's create, and leaves the store as it was.
C10_ConflictBeforeCreate ==
  /\ [](C10_SyncConflict /\ C10_AsyncConflict)
  /\ [][C10_StoreUnchanged]_vars

\* C10 witness: in one variant or the other, createUser with the upper-case
\* form of a seeded user's email has failed with the conflict error.
C10_Witness ==
  \/ /\ last.op = "createUser"
     /\ last.email = Some(JohnEmailUpper)
     /\ last.thrown = MsgConflict
  \/ \E c \in 1..MaxCalls :
       /\ calls[c].email = JohnEmailUpper
       /\ calls[c].pc = "rejected"
       /\ calls[c].thrown = MsgConflict

\* ------------------------------------------------------------------------
\* Claims about the HTTP surface
\* ------------------------------------------------------------------------
\* The step is the service of a request with this method and path
Served(method, path) ==
  /\ res'.by # "none"
  /\ res'.req.method = method
  /\ res'.req.path = path

\* C11: POST /api/users answers 400 when name or email is missing from the
\* body (absent or empty), 409 with success false when both are present and
\* a stored user already holds that email, compared case-insensitively, and
\* 201 with the created user as data otherwise; it produces no other status
\* unless the store fails.
C11_PostStatuses ==
  [][ Served("POST", "/users") =>
        LET name == res'.req.name
            email == res'.req.email
        IN IF Falsy(name) \/ Falsy(email)
           THEN res'.status = 400
           ELSE IF findByEmailThrows(users, email[1])
           THEN TRUE
           ELSE IF HeldCI(users, email)
           THEN res'.status = 409 /\ ~res'.success
           ELSE /\ res'.status = 201
                /\ res'.data.kind = "user"
                /\ users' = Append(users, res'.data.value[1])
                /\ res'.data.value[1].name = name[1]
                /\ res'.data.value[1].email = email[1] ]_vars

\* A string is numeric: it is a non-empty run of decimal digits
IsNumeric(s) == s # <<>> /\ \A i \in 1..Len(s) : s[i] \in DigitSet

\* C12: GET /api/users/:id answers 400 when the id parameter is missing or
\* not numeric, and then leaves the store alone; 404 when no stored user has
\* that id; 200 with exactly that user as data when one does.
C12_GetByIdStatuses ==
  [][ Served("GET", "/users/:id") =>
        LET id == res'.req.id
        IN IF Falsy(id) \/ ~IsNumeric(id[1])
           THEN res'.status = 400 /\ users' = users
           ELSE LET userId == parseDigits(id[1], 1, 0)
                IN IF userId \notin IdsOf(users)
                   THEN res'.status = 404
                   ELSE /\ res'.status = 200
                        /\ res'.data.kind = "user"
                        /\ res'.data.value[1] \in Range(users)
                        /\ res'.data.value[1].id = userId ]_vars

\* C13: a PUT /api/users/:id request is dispatched to the update handler,
\* which answers 400 when the id is not numeric, 404 when no stored user has
\* the id, and 200 with the updated user as data when one does.
C13_PutUpdates ==
  [][ Served("PUT", "/users/:id") =>
        LET id == res'.req.id
        IN /\ res'.by = "updateUser"
           /\ IF Falsy(id) \/ ~IsNumeric(id[1])
              THEN res'.status = 400
              ELSE LET userId == parseDigits(id[1], 1, 0)
                   IN IF userId \notin IdsOf(users)
                      THEN res'.status = 404
                      ELSE /\ res'.status = 200
                           /\ res'.data.kind = "user"
                           /\ res'.data.value[1] \in Range(users')
                           /\ res'.data.value[1].id = userId ]_vars

\* C14: for every stored user id i, DELETE /api/users/i answers 200 and
\* leaves no stored user with id i, and a GET /api/users/i for an id whose
\* user was deleted answers 404.
C14_DeleteThenGet404 ==
  [][ /\ Served("DELETE", "/users/:id") /\ Truthy(res'.req.id)
         /\ IsNumeric(res'.req.id[1])
         /\ parseDigits(res'.req.id[1], 1, 0) \in IdsOf(users)
         => /\ res'.status = 200
            /\ parseDigits(res'.req.id[1], 1, 0) \notin IdsOf(users')
      /\ Served("GET", "/users/:id") /\ Truthy(res'.req.id)
         /\ IsNumeric(res'.req.id[1])
         /\ parseDigits(res'.req.id[1], 1, 0) \in everIds \ IdsOf(users)
         => res'.status = 404 ]_vars

\* The request of the step makes the repository fail while a handler runs:
\* POST /users with a name and an email that is no string, so that
\* findByEmail throws
RepositoryFails ==
  /\ Served("POST", "/users")
  /\ Truthy(res'.req.name) /\ Truthy(res'.req.email)
  /\ findByEmailThrows(users, res'.req.email[1])

\* C15: whenever the service or repository fails (throws, or rejects in the
\* asynchronous variant) while a UserController handler is running, the
\* handler answers 500 with success false and only the generic message, and
\* no error or rejection escapes the handler.
C15_FailuresAnswer500 ==
  [][ /\ rejection' = NoError
      /\ RepositoryFails =>
           /\ res'.status = 500
           /\ ~res'.success
           /\ res'.message = MsgInternal
           /\ res'.fields = {"success", "message"} ]_vars

\* ------------------------------------------------------------------------
\* Claims about the repository's edge cases
\* ------------------------------------------------------------------------
\* C16: UserRepository.create called with a missing or empty name or email
\* fails with an error before any id is assigned: the clock is not read, no
\* user is built, and the store is unchanged.
C16_CreateRejectsMissing ==
  [][ (last'.op = "create" /\ (Falsy(last'.name) \/ Falsy(last'.email))) =>
        /\ last'.thrown = MsgRequired
        /\ last'.ret = <<>>
        /\ users' = users
        /\ now' = now
        /\ everIds' = everIds ]_vars

\* C16 witness: create was called with an empty email after a user had been
\* created, it threw, and the store still holds three users
C16_Witness ==
  /\ last.op = "create"
  /\ last.name = Some(Bob)
  /\ last.email = Some(EmptyString)
  /\ last.thrown = MsgRequired
  /\ Len(users) = 3

\* C17: for every id that no stored user has, update(id, fields) returns
\* absent and delete(id) returns false, neither raises an error, and the
\* store is unchanged.
C17_UnknownIdNoEffect ==
  [][ (last'.op \in {"update", "delete"} /\ last'.id \notin IdsOf(users)) =>
        /\ last'.thrown = NoError
        /\ last'.op = "update" => last'.ret = undefined
        /\ last'.op = "delete" => ~last'.flag
        /\ users' = users ]_vars

\* C17 witness: update was called with an id no user has, on a store that
\* holds a created user, and returned absent
C17_Witness ==
  /\ last.op = "update"
  /\ last.id = UnknownId
  /\ last.name = Some(Al)
  /\ last.ret = undefined
  /\ Len(users) = 3

\* C18: in every state reachable by create and update requests, every stored
\* user has a non-empty name and a non-empty email.
C18_NonEmptyFields ==
  \A i \in 1..Len(users) :
    users[i].name # EmptyString /\ users[i].email # EmptyString

ControllerHandlers ==
  {"getUsers", "getUserById", "createUser", "updateUser", "deleteUser"}

\* C19: every reply sent by a controller handler, success or failure, has
\* the envelope shape: a boolean success member and a timestamp member, and
\* on failure the message present in both message and error.
C19_Envelope ==
  res.by \in ControllerHandlers =>
    /\ "success" \in res.fields
    /\ res.success \in BOOLEAN
    /\ "timestamp" \in res.fields
    /\ ~res.success =>
         /\ {"message", "error"} \subseteq res.fields
         /\ res.error = res.message

\* ------------------------------------------------------------------------
\* Claims about the response envelope helpers
\* ------------------------------------------------------------------------
\* The status of each kind of failure helper
StatusOfKind ==
  [badRequest |-> 400, unauthorized |-> 401, forbidden |-> 403,
   notFound |-> 404, conflict |-> 409, unprocessableEntity |-> 422,
   internalError |-> 500, serviceUnavailable |-> 503]

\* C20: each HttpResponse helper sends the status of its kind and the
\* matching success flag: success 200 unless a status was passed, created
\* 201, both with success true; noContent 204 with an empty body;
\* badRequest 400, unauthorized 401, forbidden 403, notFound 404, conflict
\* 409, unprocessableEntity 422, internalError 500, serviceUnavailable 503,
\* all with success false, the same text in message and error, and an errors
\* list in the body only when one was passed.
C20_HelperStatuses ==
  /\ res.by = "success" =>
       /\ res.status = IF last.id = UnknownId THEN 200 ELSE last.id
       /\ "success" \in res.fields /\ res.success
  /\ res.by = "created" =>
       /\ res.status = 201
       /\ "success" \in res.fields /\ res.success
  /\ res.by = "noContent" => res.status = 204 /\ res.fields = {}
  /\ res.by \in DOMAIN StatusOfKind =>
       /\ res.status = StatusOfKind[res.by]
       /\ "success" \in res.fields /\ ~res.success
       /\ {"message", "error"} \subseteq res.fields
       /\ res.error = res.message
       /\ "errors" \in res.fields => last.flag
       /\ (res.by \in {"badRequest", "unprocessableEntity"} /\ last.flag)
            => "errors" \in res.fields

\* C20 witness: badRequest was called with a list of problems and without a
\* message, and sent 400 with the default text and the list
C20_Witness ==
  /\ res.by = "badRequest"
  /\ res.status = 400
  /\ res.message = "Bad Request"
  /\ res.errors = <<"email is required">>
  /\ "errors" \in res.fields

\* ------------------------------------------------------------------------
\* Claims about logging
\* ------------------------------------------------------------------------
\* The positions of the records that the controller itself emitted
ControllerRecords(records) ==
  {i \in 1..Len(records) : <<"module", "UserController">> \in records[i].context}

\* C21: every invocation of a UserController handler emits one log record
\* on entry describing the action, before any record of the service, and
\* emits one error-level record carrying the original error whenever it
\* catches an exception.
C21_HandlerLogs ==
  [][ res'.by \in ControllerHandlers =>
        LET own == ControllerRecords(logs')
            entry == {i \in own : logs'[i].level # "error"}
            caught == {i \in own : logs'[i].level = "error"
                                   /\ logs'[i].err # NoError}
        IN /\ entry = {1}
           /\ Cardinality(caught) = IF res'.status = 500 THEN 1 ELSE 0 ]_vars

\* ------------------------------------------------------------------------
\* The UserService methods that hand the call to the repository.  The
\* synchronous service (IRepository.ts 105-178) returns the repository's
\* value; the asynchronous one (UserService.ts 14-88) awaits the same call
\* and resolves with the value the call had returned, so that its call is
\* one step here: nothing the store goes through after the repository has
\* returned changes the value the Promise carries.
\* ------------------------------------------------------------------------
UserService_getAllUsers(us) == findAll(us)

UserService_getUserById(us, id) == findById(us, id)

\* getUserByEmail looking the email up as it is written
UserService_getUserByEmailExact(us, email) == findByEmailExact(us, email)

UserService_getUserByEmail(us, email) == findByEmail(us, email)

UserService_searchUsers(us, query) == search(us, query)

SvcRead(op, id, email, query, ret) ==
  /\ last' = Call(op, id, undefined, email, query, NoError, ret,
                  FALSE, FALSE, FALSE)
  /\ prev' = Summary(last)
  /\ UNCHANGED <<users, now, calls, everIds, variant, res, rejection, logs, sent, loggers, proc>>

SvcGetAllUsers ==
  SvcRead("getAllUsers", UnknownId, undefined, EmptyString,
          UserService_getAllUsers(users))

SvcGetUserById(id) ==
  SvcRead("getUserById", id, undefined, EmptyString,
          UserService_getUserById(users, id))

SvcGetUserByEmail(email) ==
  SvcRead("getUserByEmail", UnknownId, Some(email), EmptyString,
          UserService_getUserByEmail(users, email))

SvcSearchUsers(query) ==
  SvcRead("searchUsers", UnknownId, undefined, query,
          UserService_searchUsers(users, query))

\* UserService.updateUser(id, userData) of the asynchronous service
AsyncUpdateUser(id, name, email) ==
  /\ variant = "async"
  /\ DoUpdate("updateUser", id, name, email)
  /\ prev' = Summary(last)
  /\ UNCHANGED <<calls, variant, res, rejection, logs, sent, loggers, proc>>

\* UserService.deleteUser(id) of the asynchronous service
AsyncDeleteUser(id) ==
  /\ variant = "async"
  /\ DoDelete("deleteUser", id)
  /\ prev' = Summary(last)
  /\ UNCHANGED <<calls, variant, res, rejection, logs, sent, loggers, proc>>

PassEmails == { JohnEmail, JohnEmailUpper, BobEmail }

PassQueries == { <<"J","O","H","N">>, <<"z","z">> }

PassPatches == { <<Some(Al), undefined>> }

NextPassThrough ==
  \/ SvcGetAllUsers
  \/ \E id \in IdInputs : SvcGetUserById(id)
  \/ \E email \in PassEmails : SvcGetUserByEmail(email)
  \/ \E query \in PassQueries : SvcSearchUsers(query)
  \/ \E id \in IdInputs, in \in PassPatches : SvcUpdateUser(id, in[1], in[2])
  \/ \E id \in IdInputs : SvcDeleteUser(id)
  \/ \E id \in IdInputs, in \in PassPatches : AsyncUpdateUser(id, in[1], in[2])
  \/ \E id \in IdInputs : AsyncDeleteUser(id)

SpecPassThrough == InitEither /\ [][NextPassThrough]_vars

\* C22: for getAllUsers, getUserById, getUserByEmail, searchUsers,
\* updateUser and deleteUser, the service call returns exactly what the
\* repository call returns on the same store and arguments, raises no error
\* the repository does not raise (the repository raises none in these
\* methods), and leaves the store as the repository call alone leaves it.
C22_PassThrough ==
  [][ LET c == last'
          userIndex == findIndex(users, c.id)
      IN /\ c.thrown = NoError
         /\ c.op = "getAllUsers" =>
              c.ret = findAll(users) /\ users' = users
         /\ c.op = "getUserById" =>
              c.ret = findById(users, c.id) /\ users' = users
         /\ c.op = "getUserByEmail" =>
              c.ret = findByEmail(users, c.email[1]) /\ users' = users
         /\ c.op = "searchUsers" =>
              c.ret = search(users, c.query) /\ users' = users
         /\ c.op = "updateUser" =>
              IF userIndex = 0
              THEN c.ret = undefined /\ users' = users
              ELSE /\ users' = update(users, userIndex, c.name, c.email, now')
                   /\ c.ret = Some(users'[userIndex])
         /\ c.op = "deleteUser" =>
              IF userIndex = 0
              THEN c.flag = FALSE /\ users' = users
              ELSE c.flag = TRUE /\ users' = splice(users, userIndex) ]_vars

\* A user was deleted and then a stored user was found by an email written
\* in another letter case
C22_Witness ==
  /\ prev.op = "deleteUser"
  /\ last.op = "getUserByEmail"
  /\ last.email = Some(JohnEmailUpper)
  /\ last.ret # undefined

\* ------------------------------------------------------------------------
\* Logger (src/README.md 738-803), a wrapper of a pino logger.  loggers is
\* the heap of Logger instances, each given by the bindings of the pino
\* logger it wraps.  pino's child(bindings) returns a new pino logger whose
\* records carry the bindings of the logger it was called on followed by
\* the added ones, a key bound again taking the added value; it does not
\* touch the logger it was called on.
\* ------------------------------------------------------------------------
MaxLoggers == 4

Keys(context) == {binding[1] : binding \in context}

\* pino.Logger.child(bindings), on a logger with the bindings context
pinoChild(context, bindings) ==
  {binding \in context : binding[1] \notin Keys(bindings)} \cup bindings

\* new Logger(context): context is <<>> when the argument is left out
Logger_new(ls, context) ==
  Append(ls, IF context # undefined THEN pinoChild(RootContext, context[1])
             ELSE RootContext)

\* A child that rebinds the pino logger of the instance it is called on
Logger_childInPlace(ls, i, context) ==
  Append([ls EXCEPT ![i] = pinoChild(ls[i], context)],
         pinoChild(ls[i], context))

\* Logger.child(context) called on the instance i: the instance it returns
\* is the last of the heap
Logger_child(ls, i, context) ==
  LET childLogger == Logger_new(ls, undefined)
  IN [childLogger EXCEPT ![Len(childLogger)] = pinoChild(ls[i], context)]

\* Logger.info(message) and Logger.error(message, error) on the instance i
Logger_emit(ls, i, level, message, err) ==
  LogRecord(level, ls[i], message, <<>>, err)

LoggerContexts ==
  { {<<"requestId", "r1">>}, {<<"module", "Jobs">>, <<"job", "j1">>} }

LoggerNew(context) ==
  /\ Len(loggers) < MaxLoggers
  /\ loggers' = Logger_new(loggers, context)
  /\ last' = Call("new", Len(loggers'), undefined, undefined, EmptyString,
                  NoError, <<>>, FALSE, FALSE, FALSE)
  /\ prev' = Summary(last)
  /\ UNCHANGED <<users, now, calls, everIds, variant, res, rejection, logs, sent, proc>>

\* last.id is the instance child was called on, last.ret the context given
LoggerChild(i, context) ==
  /\ Len(loggers) < MaxLoggers
  /\ loggers' = Logger_child(loggers, i, context)
  /\ last' = Call("child", i, undefined, undefined, EmptyString,
                  NoError, context, FALSE, FALSE, FALSE)
  /\ prev' = Summary(last)
  /\ UNCHANGED <<users, now, calls, everIds, variant, res, rejection, logs, sent, proc>>

\* last.id is the instance that emitted the record logs[1]
LoggerEmit(i, level, err) ==
  /\ logs' = << Logger_emit(loggers, i, level, "message", err) >>
  /\ last' = Call(level, i, undefined, undefined, EmptyString,
                  NoError, <<>>, FALSE, FALSE, FALSE)
  /\ prev' = Summary(last)
  /\ UNCHANGED <<users, now, calls, everIds, variant, res, rejection, sent, loggers, proc>>

NextLogger ==
  \/ \E context \in {undefined} \cup {Some(c) : c \in LoggerContexts} :
       LoggerNew(context)
  \/ \E i \in 1..Len(loggers), context \in LoggerContexts :
       LoggerChild(i, context)
  \/ \E i \in 1..Len(loggers) : LoggerEmit(i, "info", NoError)
  \/ \E i \in 1..Len(loggers) : LoggerEmit(i, "error", TypeError)

SpecLogger == Init /\ [][NextLogger]_vars

\* C23: child(context) returns a new logger whose records carry the
\* parent's context merged with the added context, and leaves the parent
\* unchanged: no call changes the context of a logger that exists, so that
\* a record a logger emits, before or after children were made of it,
\* carries the context the logger was constructed with.
C23_ChildContext ==
  [][ /\ \A i \in 1..Len(loggers) : loggers'[i] = loggers[i]
      /\ last'.op = "child" /\ Len(loggers') > Len(loggers) =>
           LET parent == loggers[last'.id]
               child == loggers'[Len(loggers')]
               added == last'.ret
           IN /\ Len(loggers') = Len(loggers) + 1
              /\ added \subseteq child
              /\ \A binding \in parent :
                   binding[1] \notin Keys(added) => binding \in child
              /\ Keys(child) = Keys(parent) \cup Keys(added)
              /\ Logger_emit(loggers', Len(loggers'), "info", "message",
                             NoError).context = child
      /\ last'.op \in {"info", "error"} /\ logs' # logs =>
           /\ Len(logs') = 1
           /\ logs'[1].context = loggers[last'.id] ]_vars

\* A logger bound to a module made a child that binds the module again,
\* and then emitted a record: the record carries the parent's module
C23_Witness ==
  /\ prev.op = "child"
  /\ last.op = "info"
  /\ Len(loggers) = MaxLoggers
  /\ last.id < Len(loggers)
  /\ loggers[Len(loggers)] =
       {<<"module", "Jobs">>, <<"job", "j1">>, <<"requestId", "r1">>}
  /\ logs[1].context = {<<"module", "Server">>}

\* ------------------------------------------------------------------------
\* HelloService (src/src/repositories/IRepository.ts 44-90).  A character
\* outside ASCII is written as its code point ("U+00A1").
\* ------------------------------------------------------------------------
En == <<"e","n">>

\* The own properties of this.messages, in the order of the literal
messages ==
  << <<En, <<"H","e","l","l","o"," ","W","o","r","l","d","!">> >>,
     << <<"e","s">>,
        <<"U+00A1","H","o","l","a"," ","M","u","n","d","o","!">> >>,
     << <<"f","r">>,
        <<"B","o","n","j","o","u","r"," ","l","e"," ","m","o","n","d","e","!">> >>,
     << <<"d","e">>, <<"H","a","l","l","o"," ","W","e","l","t","!">> >>,
     << <<"i","t">>, <<"C","i","a","o"," ","M","o","n","d","o","!">> >>,
     << <<"p","t">>, <<"O","l","U+00E1"," ","M","u","n","d","o","!">> >>,
     << <<"j","a">>,
        <<"U+3053","U+3093","U+306B","U+3061","U+306F","U+4E16","U+754C","U+FF01">> >>,
     << <<"k","o">>,
        <<"U+C548","U+B155","U+D558","U+C138","U+C694"," ","U+C138","U+ACC4","!">> >>,
     << <<"z","h">>, <<"U+4F60","U+597D","U+4E16","U+754C","U+FF01">> >> >>

\* Object.keys(object)
ObjectKeys(object) == [i \in 1..Len(object) |-> object[i][1]]

\* What an object literal inherits from Object.prototype under a key that
\* toLowerCase can return: the function Object and Object.prototype itself.
\* The other inherited keys (toString, valueOf, hasOwnProperty, ...) hold
\* an upper-case letter.
ObjectFunction == <<"[Function: Object]">>
ObjectPrototypeValue == <<"[Object: null prototype] {}">>
ConstructorKey == <<"c","o","n","s","t","r","u","c","t","o","r">>
ProtoKey == <<"_","_","p","r","o","t","o","_","_">>

IsString(value) == value \notin {ObjectFunction, ObjectPrototypeValue}

\* object[key]: the own property, else the inherited one, else undefined
Property(object, key) ==
  LET I == {i \in 1..Len(object) : object[i][1] = key}
  IN IF I # {} THEN Some(object[Min(I)][2])
     ELSE IF key = ConstructorKey THEN Some(ObjectFunction)
     ELSE IF key = ProtoKey THEN Some(ObjectPrototypeValue)
     ELSE undefined

\* String.prototype.replace(pattern, replacement) with a string pattern:
\* the first occurrence is replaced (replacement holds no $)
replace(s, pattern, replacement) ==
  LET I == {i \in 1..(Len(s) - Len(pattern) + 1) :
              SubSeq(s, i, i + Len(pattern) - 1) = pattern}
  IN IF I = {} THEN s
     ELSE SubSeq(s, 1, Min(I) - 1) \o replacement
          \o SubSeq(s, Min(I) + Len(pattern), Len(s))

World == <<"W","o","r","l","d">>
Mundo == <<"M","u","n","d","o">>
monde == <<"m","o","n","d","e">>
Welt == <<"W","e","l","t">>

HelloMessage(message, timestamp, language) ==
  [message |-> message, timestamp |-> timestamp, language |-> language]

\* What a call of the service gives: the error it throws or the value it
\* returns
Returned(value) == [thrown |-> NoError, ret |-> Some(value)]
Thrown(error) == [thrown |-> error, ret |-> undefined]

TypeErrorReplace == "TypeError: baseMessage.replace is not a function"

\* messages[key] || messages['en']; every value of the table is truthy
messageOrEnglish(key) ==
  LET found == Property(messages, key)
  IN IF found # undefined THEN found[1] ELSE Property(messages, En)[1]

\* HelloService.getHelloMessage(language), the clock reading t
getHelloMessage(language, t) ==
  LET normalizedLanguage == toLowerCase(language)
      message == messageOrEnglish(normalizedLanguage)
  IN Returned(HelloMessage(message, t, normalizedLanguage))

\* HelloService.getPersonalizedHello(name, language), the clock reading t
getPersonalizedHello(name, language, t) ==
  LET normalizedLanguage == toLowerCase(language)
      baseMessage == messageOrEnglish(normalizedLanguage)
  IN IF ~IsString(baseMessage) THEN Thrown(TypeErrorReplace)
     ELSE LET personalizedMessage ==
                replace(replace(replace(replace(baseMessage, World, name),
                                        Mundo, name), monde, name),
                        Welt, name)
          IN Returned(HelloMessage(personalizedMessage, t, normalizedLanguage))

getAllSupportedLanguages == ObjectKeys(messages)

\* HelloService.getRandomHello(): k is Math.floor(Math.random() *
\* languages.length) + 1
getRandomHello(k, t) ==
  LET languages == getAllSupportedLanguages
      randomLanguage == languages[k]
  IN getHelloMessage(randomLanguage, t)

\* ------------------------------------------------------------------------
\* HelloController (src/src/controllers/HelloController.ts 5-95)
\* ------------------------------------------------------------------------
\* A request of the hello routes: name is the parameter of the path, lang
\* the member of the query string: absent, a string, or (when the query
\* string names it twice) an array
HelloReq(path, name, lang) ==
  [method |-> "GET", path |-> path, name |-> name, lang |-> lang]

LangArray == <<"['en', 'es']">>

MsgNameRequired == "Name parameter is required"

\* typeof lang === 'string' ? lang : 'en'
languageOf(lang) ==
  IF lang # undefined /\ lang[1] # LangArray THEN lang[1] ELSE En

HelloData(helloMessage) == [kind |-> "hello", value |-> <<helloMessage>>]

LanguagesData(languages) ==
  [kind |-> "languages",
   value |-> <<[languages |-> languages, count |-> Len(languages)]>>]

\* The replies a handler sends on its path, in the order it sends them
helloSends(req, t) ==
  LET language == languageOf(req.lang)
      helloMessage == getHelloMessage(language, t)
  IN IF helloMessage.thrown # NoError
     THEN << jsonFailure("hello", req, 500, MsgInternal) >>
     ELSE << jsonData("hello", req, 200, HelloData(helloMessage.ret[1])) >>

\* personalizedHello going on after it has sent the 400 reply (the name it
\* then passes on is not a string; the empty string stands for it)
personalizedHelloNoReturn(req, t) ==
  LET language == languageOf(req.lang)
      name == IF req.name = undefined THEN EmptyString ELSE req.name[1]
      helloMessage == getPersonalizedHello(name, language, t)
      first == IF Falsy(req.name)
               THEN << jsonFailure("personalizedHello", req, 400,
                                   MsgNameRequired) >>
               ELSE <<>>
  IN IF helloMessage.thrown # NoError
     THEN first \o << jsonFailure("personalizedHello", req, 500, MsgInternal) >>
     ELSE first \o << jsonData("personalizedHello", req, 200,
                               HelloData(helloMessage.ret[1])) >>

personalizedHelloSends(req, t) ==
  IF Falsy(req.name)
  THEN << jsonFailure("personalizedHello", req, 400, MsgNameRequired) >>
  ELSE LET language == languageOf(req.lang)
           helloMessage == getPersonalizedHello(req.name[1], language, t)
       IN IF helloMessage.thrown # NoError
          THEN << jsonFailure("personalizedHello", req, 500, MsgInternal) >>
          ELSE << jsonData("personalizedHello", req, 200,
                           HelloData(helloMessage.ret[1])) >>

randomHelloSends(req, k, t) ==
  LET helloMessage == getRandomHello(k, t)
  IN IF helloMessage.thrown # NoError
     THEN << jsonFailure("randomHello", req, 500, MsgInternal) >>
     ELSE << jsonData("randomHello", req, 200,
                      HelloData(helloMessage.ret[1])) >>

getSupportedLanguagesSends(req) ==
  LET languages == getAllSupportedLanguages
  IN << jsonData("getSupportedLanguages", req, 200,
                 LanguagesData(languages)) >>

\* The handler has sent the replies sends; t is what the clock read if the
\* service built a HelloMessage, and now otherwise
Responds(sends, t) ==
  /\ res' = sends[Len(sends)]
  /\ sent' = Len(sends)
  /\ now' = IF res'.status = 200 /\ res'.data.kind = "hello" THEN t ELSE now
  /\ logs' = <<>>
  /\ UNCHANGED <<users, last, everIds, rejection>>
  /\ HandlerFrame

\* GET /hello
hello(req) ==
  \E t \in ClockReads(now) : Responds(helloSends(req, t), t)

\* GET /hello/personalized/:name
personalizedHello(req) ==
  \E t \in ClockReads(now) : Responds(personalizedHelloSends(req, t), t)

\* GET /hello/random
randomHello(req) ==
  \E t \in ClockReads(now), k \in 1..Len(getAllSupportedLanguages) :
    Responds(randomHelloSends(req, k, t), t)

\* GET /hello/languages
getSupportedLanguages(req) ==
  Responds(getSupportedLanguagesSends(req), now)

HelloLangs ==
  { undefined, Some(LangArray), Some(EmptyString), Some(En),
    Some(<<"E","S">>), Some(<<"F","r">>), Some(<<"d","e">>),
    Some(<<"x","x">>), Some(ConstructorKey), Some(ProtoKey) }

HelloNames == { undefined, Some(Al), Some(Welt), Some(Mundo) }

NextHello ==
  \/ \E lang \in HelloLangs : hello(HelloReq("/hello", undefined, lang))
  \/ \E name \in HelloNames, lang \in HelloLangs :
       personalizedHello(HelloReq("/hello/personalized/:name", name, lang))
  \/ randomHello(HelloReq("/hello/random", undefined, undefined))
  \/ getSupportedLanguages(HelloReq("/hello/languages", undefined, undefined))

SpecHello == Init /\ [][NextHello]_vars

\* The greeting the table holds for a language code that is one of its keys
GreetingOf(language) ==
  messages[CHOOSE i \in 1..Len(messages) : messages[i][1] = language][2]

IsKey(language) == \E i \in 1..Len(messages) : messages[i][1] = language

Personalized(greeting, name) ==
  replace(replace(replace(replace(greeting, World, name), Mundo, name),
                  monde, name), Welt, name)

\* C24: for every language code that is not one of the nine keys of the
\* greeting table, getHelloMessage and getPersonalizedHello use the English
\* greeting and never fail; for a code that is a key, matched
\* case-insensitively, they use that language's greeting.
C24_Greetings ==
  [][ LET req == res'.req
          language == toLowerCase(languageOf(req.lang))
          greeting == IF IsKey(language) THEN GreetingOf(language)
                      ELSE GreetingOf(En)
      IN /\ res'.by = "hello" =>
              /\ res'.status = 200
              /\ res'.data.value[1].message = greeting
         /\ res'.by = "personalizedHello" /\ Truthy(req.name) =>
              /\ res'.status = 200
              /\ res'.data.value[1].message =
                   Personalized(greeting, req.name[1]) ]_vars

\* ------------------------------------------------------------------------
\* The server process (src/src/index.ts 55-124, src/src/config/database.ts
\* 74-93).  Each action is one run of the event loop's callbacks: it runs
\* to the next await or to process.exit.  A rejected promise nobody handles
\* is given to the unhandledRejection handler before the event loop goes
\* on: while one waits, no signal, timer or I/O callback runs.
\* ------------------------------------------------------------------------
MaxTriggers == 3

Signals == {"SIGTERM", "SIGINT", "UNCAUGHT_EXCEPTION", "UNHANDLED_REJECTION"}

Running == proc.exitCode = NoExit /\ proc.rejections = 0

\* process.exit(code)
exit(p, code) == [p EXCEPT !.exitCode = code]

\* startServer that listens before it looks at what testConnection gave
startServerListenFirst(p, connected) ==
  IF connected
  THEN [p EXCEPT !.startup = "started", !.server = "listening"]
  ELSE exit([p EXCEPT !.startup = "failed", !.server = "listening"], 1)

\* startServer() after its await: testConnection has resolved (connected)
\* or has rejected
startServer(p, connected) ==
  IF connected
  THEN [p EXCEPT !.startup = "started", !.server = "listening"]
  ELSE exit([p EXCEPT !.startup = "failed"], 1)

\* server.close(callback): the callback waits for the close event, also
\* when close was called before; only a listening server starts to close
serverClose(p) ==
  [p EXCEPT !.closeStarted = @ + 1,
            !.closeCallbacks = @ + 1,
            !.server = IF @ = "listening" THEN "closing" ELSE @]

\* gracefulShutdown(signal): server.close throws a TypeError while server
\* is undefined, which rejects the promise gracefulShutdown returns before
\* the timer is set
gracefulShutdown(p, signal) ==
  LET q == [p EXCEPT !.signal = signal]
  IN IF q.server = "undefined"
     THEN [q EXCEPT !.rejections = 1]
     ELSE [serverClose(q) EXCEPT !.timers = @ + 1]

\* The callbacks of server.close when the close event is emitted: each
\* calls closeConnection and awaits it
closeCallback(p) ==
  [p EXCEPT !.server = "closed",
            !.dbCalls = @ + p.closeCallbacks,
            !.dbPending = @ + p.closeCallbacks,
            !.closeCallbacks = 0]

\* The callback of server.close letting the rejection of closeConnection
\* escape
afterCloseConnectionRethrow(p, resolved) ==
  LET q == [p EXCEPT !.dbPending = @ - 1, !.dbSettled = @ + 1,
                     !.dbRejected = IF resolved THEN @ ELSE @ + 1]
  IN IF resolved THEN exit(q, 0) ELSE [q EXCEPT !.rejections = 1]

\* The callback of server.close after its await: closeConnection has
\* resolved or has rejected (the catch block logs the error)
afterCloseConnection(p, resolved) ==
  LET q == [p EXCEPT !.dbPending = @ - 1, !.dbSettled = @ + 1,
                     !.dbRejected = IF resolved THEN @ ELSE @ + 1]
  IN exit(q, 0)

\* The callback of setTimeout(..., 10000)
forcedShutdown(p) == exit([p EXCEPT !.timers = @ - 1], 1)

ProcFrame ==
  UNCHANGED <<users, now, last, prev, calls, everIds, variant, res, rejection, logs, sent, loggers>>

\* testConnection settles and startServer goes on
TestConnectionSettles(connected) ==
  /\ Running
  /\ proc.startup = "connecting"
  /\ proc' = startServer(proc, connected)
  /\ ProcFrame

\* A signal arrives, an exception is not caught or a rejection is not
\* handled: its handler calls gracefulShutdown
Trigger(signal) ==
  /\ Running
  /\ proc.triggers < MaxTriggers
  /\ proc' = gracefulShutdown([proc EXCEPT !.triggers = @ + 1], signal)
  /\ ProcFrame

\* The rejected promise of gracefulShutdown reaches the unhandledRejection
\* handler, which calls gracefulShutdown: server is still undefined, the
\* call throws again and leaves the process as it was, with a rejected
\* promise waiting for the handler
RejectionHandler ==
  /\ proc.exitCode = NoExit
  /\ proc.rejections > 0
  /\ proc' = gracefulShutdown([proc EXCEPT !.rejections = 0,
                                           !.reentered = TRUE],
                              "UNHANDLED_REJECTION")
  /\ ProcFrame

\* The server has closed its last connection and emits close
CloseEvent ==
  /\ Running
  /\ proc.server \in {"closing", "closed"}
  /\ proc.closeCallbacks > 0
  /\ proc' = closeCallback(proc)
  /\ ProcFrame

\* One closeConnection call settles and its callback goes on
CloseConnectionSettles(resolved) ==
  /\ Running
  /\ proc.dbPending > 0
  /\ proc' = afterCloseConnection(proc, resolved)
  /\ ProcFrame

\* The 10 seconds of a timer have passed
TimerFires ==
  /\ Running
  /\ proc.timers > 0
  /\ proc' = forcedShutdown(proc)
  /\ ProcFrame

NextProcess ==
  \/ \E connected \in BOOLEAN : TestConnectionSettles(connected)
  \/ \E signal \in Signals : Trigger(signal)
  \/ RejectionHandler
  \/ CloseEvent
  \/ \E resolved \in BOOLEAN : CloseConnectionSettles(resolved)
  \/ TimerFires

SpecProcess == Init /\ [][NextProcess]_vars

\* The scheduling of the process: a pending timer fires, a pending
\* closeConnection and testConnection settle, and a waiting rejection
\* reaches its handler.  Nothing makes the server's last connection end.
SpecProcessFair ==
  /\ SpecProcess
  /\ WF_vars(TimerFires)
  /\ WF_vars(\E resolved \in BOOLEAN : CloseConnectionSettles(resolved))
  /\ WF_vars(\E connected \in BOOLEAN : TestConnectionSettles(connected))
  /\ WF_vars(RejectionHandler)

\* C25: the process exits with code 0 only in the step in which a
\* closeConnection call settles, which was made after the server had
\* finished closing; closeConnection is never called before the server
\* has closed; and a closeConnection call that is rejected is followed by
\* the exit with code 0 all the same.
C25_ExitZeroAfterClose ==
  [][ /\ proc'.exitCode = 0 /\ proc.exitCode # 0 =>
           /\ proc.server = "closed"
           /\ proc.dbPending > 0
           /\ proc'.dbSettled = proc.dbSettled + 1
      /\ proc'.dbCalls > proc.dbCalls =>
           /\ proc.server \in {"closing", "closed"}
           /\ proc'.server = "closed"
      /\ proc'.dbSettled > proc.dbSettled => proc'.exitCode = 0 ]_vars

\* After one SIGTERM the server closed, closeConnection was rejected and
\* the process exited with code 0
C25_Witness ==
  /\ proc.signal = "SIGTERM"
  /\ proc.triggers = 1
  /\ proc.dbRejected = 1
  /\ proc.exitCode = 0

\* C26: after any termination trigger, arriving at any time after the
\* process started, the process eventually exits.
C26_EventuallyExits == (proc.triggers > 0) ~> (proc.exitCode # NoExit)

\* C27: the server listens only if testConnection has succeeded; when
\* testConnection has failed the process has exited with code 1 and the
\* server was never created.
C27_ListenAfterConnect ==
  /\ proc.server # "undefined" => proc.startup = "started"
  /\ proc.startup = "failed" =>
       proc.exitCode = 1 /\ proc.server = "undefined"
  /\ proc.startup = "connecting" => proc.server = "undefined"

\* testConnection failed: the process exited with code 1 without a server
C27_Witness ==
  /\ proc.startup = "failed"
  /\ proc.exitCode = 1
  /\ proc.server = "undefined"
  /\ proc.triggers = 0

\* C30: however many termination triggers arrive, server.close is called
\* and closeConnection is called at most once each.
C30_AtMostOnce ==
  /\ proc.closeStarted <= 1
  /\ proc.dbCalls <= 1

\* ------------------------------------------------------------------------
\* The handlers of both controllers
\* ------------------------------------------------------------------------
\* The requests tried on the handlers of both controllers.  A body whose
\* email is a JSON number is sent while the store holds a user (findByEmail
\* then calls toLowerCase on it).
ControllerIdParams == {undefined, Some(Abc), Some(numberToString(1))}

ControllerBodies ==
  { <<Some(Bob), Some(BobEmail)>>, <<undefined, Some(BobEmail)>> }
  \cup (IF Len(users) > 0 THEN { <<Some(Bob), Some(NumberValue)>> } ELSE {})

ControllerLangs == { undefined, Some(ConstructorKey) }

NextControllers ==
  \/ getUsers(Req("GET", "/users", undefined, undefined, undefined, undefined))
  \/ \E p \in ControllerIdParams :
       getUserById(Req("GET", "/users/:id", p, undefined, undefined,
                       undefined))
  \/ \E b \in ControllerBodies :
       createUser(Req("POST", "/users", undefined, b[1], b[2], undefined))
  \/ \E p \in ControllerIdParams : \E b \in HandlerPatches :
       updateUser(Req("PUT", "/users/:id", p, b[1], b[2], undefined))
  \/ \E p \in ControllerIdParams :
       deleteUser(Req("DELETE", "/users/:id", p, undefined, undefined,
                      undefined))
  \/ \E lang \in ControllerLangs :
       hello(HelloReq("/hello", undefined, lang))
  \/ \E name \in {undefined, Some(Al)}, lang \in ControllerLangs :
       personalizedHello(HelloReq("/hello/personalized/:name", name, lang))
  \/ randomHello(HelloReq("/hello/random", undefined, undefined))
  \/ getSupportedLanguages(HelloReq("/hello/languages", undefined, undefined))

SpecControllers == InitEither /\ [][NextControllers]_vars

HelloHandlers ==
  {"hello", "personalizedHello", "randomHello", "getSupportedLanguages"}

\* C28: a request to a UserController handler changes the store only when
\* it is answered with a success status: a POST answered 201 adds exactly
\* one user and changes no existing user, and every request answered 400,
\* 404, 409 or 500, as well as every GET request, leaves the store as it
\* was.
C28_StoreFrame ==
  [][ res'.by \in ControllerHandlers =>
        /\ users' # users => res'.status \in {200, 201}
        /\ res'.status \in {400, 404, 409, 500} => users' = users
        /\ res'.req.method = "GET" => users' = users
        /\ res'.req.method = "POST" /\ res'.status = 201 =>
             /\ Len(users') = Len(users) + 1
             /\ \A i \in 1..Len(users) : users'[i] = users[i] ]_vars

\* A POST was answered 201: the store holds the two seeded users,
\* unchanged, and the new one
C28_Witness ==
  /\ res.by = "createUser"
  /\ res.status = 201
  /\ Len(users) = 3
  /\ users[1] = SeedUsers[1]
  /\ users[2] = SeedUsers[2]
  /\ users[3].email = BobEmail

====
